---- MODULE Spec2Model ----
(***************************************************************************)
(* State-machine model of the GreenSync backend core:                      *)
(*   - core/corridor.py   run_comparison, the two signal plans             *)
(*   - core/graph.py      CITY_GRAPH and get_best_route                    *)
(*   - core/optimizer.py  TrafficOptimizer (calculate_cost,                *)
(*                        find_optimal_path)                               *)
(*   - app.py             get_comparison and its cache                     *)
(*   - simulation/spat_engine.py  SpatEngine (load, get_state_at,          *)
(*                        get_snapshot, replay)                            *)
(*                                                                         *)
(* Units.  Python floats are modelled in fixed point, on grids on which    *)
(* the program's arithmetic is exact:                                      *)
(*   - corridor queues are counted in 1/10000 vehicle, delays in 1/10000   *)
(*     vehicle-second; the per-tick arrivals are tabulated on a grid of    *)
(*     80 such units so that the factors 0.2, 0.15 and 0.55 stay exact;    *)
(*   - SPaT times are counted in 1/20 s; the times of the sources and the  *)
(*     steps are quarter seconds (dyadic, so that Python's float additions *)
(*     and comparisons are exact), values rounded by round(x, 1) tenths;   *)
(*   - route costs are counted in seconds (36.0 and 2.0 * queue are exact).*)
(***************************************************************************)
EXTENDS Integers, Sequences, FiniteSets, TLC

VARIABLES
    \* ---- core/corridor.py: one run_comparison call ----
    rc_pc,              \* "idle" | "loop" | "done" | "raised"
    rc_duration,        \* duration_s argument (seconds)
    t,                  \* loop variable t (seconds)
    baseline_states,    \* node index -> [queue, delay]
    optimized_states,   \* node index -> [queue, delay]
    baseline_series,    \* sequence of emitted records
    optimized_series,   \* sequence of emitted records
    summary,            \* the summary dict, or NoValue
    sig,                \* the signal-plan call in progress: arguments and results
    \* ---- app.py: get_comparison ----
    comparison_cache,   \* _comparison_cache: << >> for None, else <<the result>>
    cmp,                \* the get_comparison request: position, arguments, the
                        \* cache it found and the response
    \* ---- core/graph.py: the static network and the last get_best_route call ----
    CITY_GRAPH,         \* edge (u, v) -> [distance, speed_limit, base_time]
    route_pc,           \* "idle" | "returned"
    route_call,         \* [start, end, traffic] of the last call, or NoValue
    route_weights,      \* edge (u, v) -> current_weight set on the call's copy G
    route_result,       \* the returned path, or the exception the call raised
    \* ---- core/optimizer.py: the last find_optimal_path call ----
    opt,                \* position, arguments and result of the call
    \* ---- simulation/spat_engine.py: one SpatEngine and its callers ----
    events,             \* self.events
    duration_s,         \* self.duration_s
    loaded,             \* self._loaded
    current_time,       \* self._current_time
    current_state,      \* self._current_state: intersection id -> phase
    lock,               \* holder of self._lock, or "free"
    load_count,         \* load() calls made so far
    load_result,        \* "none" | "ok" | "raised": how the last load() ended
    inv,                \* replay generator -> its frame and what it has yielded
    started,            \* replay generators created so far
    poll,               \* get_snapshot caller -> its position ("idle" | "rtime" |
                        \* "rstate" | "raised") and the time it read
    last_snapshot,      \* the dict the last returning get_snapshot call returned
    query,              \* the last get_state_at call: its argument and result
    timeline,           \* the list the last build_timeline call returned
    timeline_result     \* "none" | "ok" | "raised": how the last build_timeline ended

runVars == <<rc_pc, rc_duration, t, baseline_states, optimized_states,
             baseline_series, optimized_series, summary>>

signalVars == <<sig>>

compareVars == <<comparison_cache, cmp>>

corridorVars == <<runVars, signalVars, compareVars>>

routeVars == <<CITY_GRAPH, route_pc, route_call, route_weights, route_result, opt>>

timelineVars == <<timeline, timeline_result>>

engineVars == <<events, duration_s, loaded, current_time, current_state, lock,
                load_count, load_result, inv, started, poll, last_snapshot, query,
                timelineVars>>

vars == <<corridorVars, routeVars, engineVars>>

NoValue == "None"

Max(a, b) == IF a >= b THEN a ELSE b
Min(a, b) == IF a <= b THEN a ELSE b

(***************************************************************************)
(* Python's round(): the nearest integer to x*m/d, ties to even.  The      *)
(* product is split so that it stays inside TLC's 32-bit integers.         *)
(***************************************************************************)
MulDivRound(x, m, d) ==
    LET q == x \div d
        r == x % d
        w == q * m + (r * m) \div d
        f == (r * m) % d
    IN  IF 2 * f < d THEN w
        ELSE IF 2 * f > d THEN w + 1
        ELSE IF w % 2 = 0 THEN w ELSE w + 1

(***************************************************************************)
(*                          core/corridor.py                               *)
(***************************************************************************)
CORRIDOR_N == 8
DT == 5
NodeIdx == 0 .. (CORRIDOR_N - 1)

\* Largest duration_s a modelled run_comparison call is given.
MaxDuration == 300
Durations == (0 - DT) .. MaxDuration

\* The fixed cycle with every node on the same offset.
BaselineSignalNoOffset(time, node_idx) ==
    LET local == time % 90
    IN  IF local < 40 THEN "GREEN"
        ELSE IF local < 45 THEN "YELLOW"
        ELSE "RED"

baseline_signal(time, node_idx) ==
    LET cycle  == 90
        offset == (node_idx * 13) % cycle
        local  == (time + offset) % cycle
    IN  IF local < 40 THEN "GREEN"
        ELSE IF local < 45 THEN "YELLOW"
        ELSE "RED"

\* The green extension without its cap.
GreenTimeUncapped(queue) == 25 + (queue * 6) \div 100000

\* green_time = min(55, 25 + int(queue * 0.6)), queue in 1/10000 vehicle
green_time(queue) == Min(55, 25 + (queue * 6) \div 100000)

\* The adaptive plan with the fixed plan's 5 s of YELLOW.
OptimizedSignalLongYellow(time, node_idx, queue) ==
    LET local == (time + ((node_idx * 9) % 75)) % 75
    IN  IF local < Min(55, 25 + (queue * 6) \div 100000) THEN "GREEN"
        ELSE IF local < Min(55, 25 + (queue * 6) \div 100000) + 5 THEN "YELLOW"
        ELSE "RED"

optimized_signal(time, node_idx, queue) ==
    LET cycle  == 75
        offset == (node_idx * 9) % cycle
        local  == (time + offset) % cycle
    IN  IF local < green_time(queue) THEN "GREEN"
        ELSE IF local < green_time(queue) + 4 THEN "YELLOW"
        ELSE "RED"

\* arrival_rate(5k) * DT for k = 0 .. 35, in 1/10000 vehicle on the grid of 80
ArrivalTable ==
    << 20000, 21280, 22560, 23840, 24960, 26080, 27040, 27920, 28640, 29200,
       29680, 29920, 30000, 29920, 29680, 29200, 28640, 27920, 27040, 26080,
       24960, 23840, 22560, 21280,
       40000, 45200, 50000, 54160, 57360, 59280, 60000, 59280, 57360, 54160,
       50000, 45200 >>

\* arrivals = arrival_rate(t) * DT at a tick t = 0, 5, 10, ...
Arrivals(time) ==
    IF time < 180 THEN ArrivalTable[time \div DT + 1] ELSE 10000

\* The GREEN update without its floor at zero.
GreenQueueNoFloor(queue, arrivals, discharge) == queue + arrivals - discharge

\* GREEN: queue = max(0, queue + arrivals - rate * DT)
GreenQueue(queue, arrivals, discharge) == Max(0, queue + arrivals - discharge)

\* The baseline update with the delay cleared whenever the node turns GREEN.
BaselineStepDelayCleared(s, time, i, arrivals) ==
    LET bph == baseline_signal(time, i)
    IN  IF bph = "GREEN"
        THEN [queue |-> GreenQueue(s.queue, arrivals, 25000), delay |-> 0]
        ELSE IF bph = "RED"
        THEN [queue |-> s.queue + arrivals,
              delay |-> s.delay + (s.queue + arrivals) * DT]
        ELSE [s EXCEPT !.queue = s.queue + arrivals \div 5]

\* One baseline node update (0.5 * DT = 2.5 vehicles discharged on GREEN).
BaselineStep(s, time, i, arrivals) ==
    LET bph == baseline_signal(time, i)
    IN  IF bph = "GREEN"
        THEN [s EXCEPT !.queue = GreenQueue(s.queue, arrivals, 25000)]
        ELSE IF bph = "RED"
        THEN LET q == s.queue + arrivals
             IN  [queue |-> q, delay |-> s.delay + q * DT]
        ELSE [s EXCEPT !.queue = s.queue + arrivals \div 5]

\* The optimized update with the RED delay left undamped.
OptimizedStepUndamped(s, time, i, arrivals) ==
    LET oph == optimized_signal(time, i, s.queue)
    IN  IF oph = "GREEN"
        THEN [s EXCEPT !.queue = GreenQueue(s.queue, arrivals, 32500)]
        ELSE IF oph = "RED"
        THEN LET q == s.queue + arrivals
             IN  [queue |-> q, delay |-> s.delay + q * DT]
        ELSE [s EXCEPT !.queue = s.queue + (arrivals * 3) \div 20]

\* One optimized node update (0.65 * DT = 3.25 vehicles discharged on GREEN).
OptimizedStep(s, time, i, arrivals) ==
    LET oph == optimized_signal(time, i, s.queue)
    IN  IF oph = "GREEN"
        THEN [s EXCEPT !.queue = GreenQueue(s.queue, arrivals, 32500)]
        ELSE IF oph = "RED"
        THEN LET q == s.queue + arrivals
             IN  [queue |-> q, delay |-> s.delay + (q * DT * 55) \div 100]
        ELSE [s EXCEPT !.queue = s.queue + (arrivals * 3) \div 20]

RECURSIVE SumField(_, _, _)
SumField(states, field, i) ==
    IF i < 0 THEN 0
    ELSE (IF field = "queue" THEN states[i].queue ELSE states[i].delay)
         + SumField(states, field, i - 1)

\* One emitted record.  queue_length and avg_delay_s in tenths, fuel_L in
\* millilitres, co2_kg in grams: the digits the program's round() keeps.
SeriesRecord(time, total_q, total_d, arrivals) ==
    [ time_s       |-> time,
      queue_length |-> MulDivRound(total_q, 1, 1000),
      avg_delay_s  |-> MulDivRound(total_d, 10, CORRIDOR_N * Max(10000, arrivals)),
      fuel_L       |-> MulDivRound(total_d, 1, 1000),
      co2_kg       |-> MulDivRound(total_d, 231, 100000) ]

Summary(b_final, o_final) ==
    LET fuel_saved == b_final.fuel_L - o_final.fuel_L
    IN  [ queue_reduction_pct |->
              MulDivRound(b_final.queue_length - o_final.queue_length, 1000,
                          Max(10, b_final.queue_length)),
          delay_reduction_pct |->
              MulDivRound(b_final.avg_delay_s - o_final.avg_delay_s, 1000,
                          Max(10, b_final.avg_delay_s)),
          fuel_saved_L  |-> fuel_saved,
          co2_saved_kg  |-> MulDivRound(fuel_saved, 231, 100),
          baseline_final_queue  |-> b_final.queue_length,
          optimized_final_queue |-> o_final.queue_length ]

NewNodeStates == [i \in NodeIdx |-> [queue |-> 0, delay |-> 0]]

\* ---- the signal plans, called on their own -------------------------------
\* Times (whole seconds) and queue depths (in steps of half a vehicle) the
\* plans are called with.
MaxSignalTime == 180
MaxQueueSteps == 110
SignalTimes == 0 .. MaxSignalTime
SignalQueues == {k * (10000 \div 2) : k \in 0 .. MaxQueueSteps}

NoSignalCall ==
    [ fn |-> "none", time |-> 0, node_idx |-> 0, queue |-> 0, phase |-> "none",
      phase_next_cycle |-> "none", green |-> 0, green_above |-> 0 ]

\* baseline_signal(time, node_idx), and the same call one cycle (90 s) later
CallBaselineSignal(time, node_idx) ==
    /\ sig.fn = "none"
    /\ sig' = [ fn |-> "baseline", time |-> time, node_idx |-> node_idx, queue |-> 0,
                phase |-> baseline_signal(time, node_idx),
                phase_next_cycle |-> baseline_signal(time + 90, node_idx),
                green |-> 0, green_above |-> 0 ]

\* optimized_signal(time, node_idx, queue) and the same call one cycle (75 s)
\* later, with the green time it uses and that of a queue half a vehicle deeper
CallOptimizedSignal(time, node_idx, queue) ==
    /\ sig.fn = "none"
    /\ sig' = [ fn |-> "optimized", time |-> time, node_idx |-> node_idx,
                queue |-> queue,
                phase |-> optimized_signal(time, node_idx, queue),
                phase_next_cycle |-> optimized_signal(time + 75, node_idx, queue),
                green |-> green_time(queue),
                green_above |-> green_time(queue + 10000 \div 2) ]

\* The caller has taken the phase.
SignalReturn ==
    /\ sig.fn # "none"
    /\ sig' = NoSignalCall

SignalNext ==
    \/ /\ sig.fn = "none"
       /\ \E time \in SignalTimes, i \in NodeIdx :
             CallBaselineSignal(time, i) /\ UNCHANGED <<runVars, compareVars, routeVars, engineVars>>
    \/ /\ sig.fn = "none"
       /\ \E time \in SignalTimes, i \in NodeIdx, queue \in SignalQueues :
             CallOptimizedSignal(time, i, queue)
             /\ UNCHANGED <<runVars, compareVars, routeVars, engineVars>>
    \/ SignalReturn /\ UNCHANGED <<runVars, compareVars, routeVars, engineVars>>

CorridorInit ==
    /\ sig = NoSignalCall
    /\ rc_pc = "idle"
    /\ rc_duration = 0
    /\ t = 0
    /\ baseline_states = NewNodeStates
    /\ optimized_states = NewNodeStates
    /\ baseline_series = << >>
    /\ optimized_series = << >>
    /\ summary = NoValue

\* The loop test with the end of the run left out.
LoopContinuesStrict(time, duration) == time < duration

\* while t <= duration_s
LoopContinues(time, duration) == time <= duration

\* run_comparison(duration_s) is entered: fresh node states, empty series.
RunComparison(d) ==
    /\ rc_pc \in {"idle", "done", "raised"}
    /\ rc_pc' = "loop"
    /\ rc_duration' = d
    /\ t' = 0
    /\ baseline_states' = NewNodeStates
    /\ optimized_states' = NewNodeStates
    /\ baseline_series' = << >>
    /\ optimized_series' = << >>
    /\ summary' = NoValue

\* One iteration of `while t <= duration_s`.
CorridorTick ==
    /\ rc_pc = "loop"
    /\ LoopContinues(t, rc_duration)
    /\ LET arrivals == Arrivals(t)
           bs == [i \in NodeIdx |-> BaselineStep(baseline_states[i], t, i, arrivals)]
           os == [i \in NodeIdx |-> OptimizedStep(optimized_states[i], t, i, arrivals)]
       IN  /\ baseline_states' = bs
           /\ optimized_states' = os
           /\ baseline_series' = Append(baseline_series,
                  SeriesRecord(t, SumField(bs, "queue", CORRIDOR_N - 1),
                               SumField(bs, "delay", CORRIDOR_N - 1), arrivals))
           /\ optimized_series' = Append(optimized_series,
                  SeriesRecord(t, SumField(os, "queue", CORRIDOR_N - 1),
                               SumField(os, "delay", CORRIDOR_N - 1), arrivals))
    /\ t' = t + DT
    /\ UNCHANGED <<rc_pc, rc_duration, summary>>

\* The loop has ended: baseline_series[-1] raises IndexError on an empty series,
\* otherwise the summary is computed and the result returned.
CorridorFinish ==
    /\ rc_pc = "loop"
    /\ ~LoopContinues(t, rc_duration)
    /\ IF Len(baseline_series) = 0
       THEN /\ rc_pc' = "raised"
            /\ summary' = NoValue
       ELSE /\ rc_pc' = "done"
            /\ summary' = Summary(baseline_series[Len(baseline_series)],
                                  optimized_series[Len(optimized_series)])
    /\ UNCHANGED <<rc_duration, t, baseline_states, optimized_states,
                   baseline_series, optimized_series>>

CorridorNext ==
    \/ \E d \in Durations : RunComparison(d) /\ UNCHANGED <<signalVars, compareVars, routeVars, engineVars>>
    \/ CorridorTick /\ UNCHANGED <<signalVars, compareVars, routeVars, engineVars>>
    \/ CorridorFinish /\ UNCHANGED <<signalVars, compareVars, routeVars, engineVars>>

(***************************************************************************)
(*                        app.py: get_comparison                           *)
(***************************************************************************)
\* duration query arguments of the requests: a negative one, 0, ten seconds
\* and the longest run.
CompareDurations == {0 - DT, 0, 2 * DT, MaxDuration}

\* No request yet.
NoRequest ==
    [pc |-> "idle", duration |-> 0, refresh |-> FALSE, before |-> << >>,
     response |-> << >>]

\* _comparison_cache: dict | None = None
CompareInit ==
    /\ comparison_cache = << >>
    /\ cmp = NoRequest

\* The dict run_comparison returns.
ComparisonResult ==
    [ duration_s |-> rc_duration,
      baseline   |-> baseline_series,
      optimized  |-> optimized_series,
      summary    |-> summary ]

\* if _comparison_cache is None or request.args.get('refresh') == '1'
WantsRun(cache, refresh) == cache = << >> \/ refresh

\* GET /api/compare?duration=d[&refresh=1]: the cached result is returned, or
\* run_comparison(duration_s=duration) is entered.
GetComparison(d, refresh) ==
    /\ cmp.pc # "running"
    /\ rc_pc \in {"idle", "done", "raised"}
    /\ IF WantsRun(comparison_cache, refresh)
       THEN /\ RunComparison(d)
            /\ cmp' = [pc |-> "running", duration |-> d, refresh |-> refresh,
                       before |-> comparison_cache, response |-> << >>]
       ELSE /\ cmp' = [pc |-> "returned", duration |-> d, refresh |-> refresh,
                       before |-> comparison_cache, response |-> comparison_cache]
            /\ UNCHANGED runVars
    /\ UNCHANGED comparison_cache

\* run_comparison has returned and its result is stored and sent, or it has
\* raised and the request fails with the cache as it was.
GetComparisonReturn ==
    /\ cmp.pc = "running"
    /\ rc_pc \in {"done", "raised"}
    /\ IF rc_pc = "done"
       THEN /\ comparison_cache' = << ComparisonResult >>
            /\ cmp' = [cmp EXCEPT !.pc = "returned",
                                  !.response = << ComparisonResult >>]
       ELSE /\ cmp' = [cmp EXCEPT !.pc = "raised"]
            /\ UNCHANGED comparison_cache
    /\ UNCHANGED runVars

\* Requests to /api/compare, served one at a time.
CompareNext ==
    \/ /\ cmp.pc # "running"
       /\ \E d \in CompareDurations, refresh \in BOOLEAN :
             GetComparison(d, refresh) /\ UNCHANGED <<signalVars, routeVars, engineVars>>
    \/ /\ cmp.pc = "running"
       /\ CorridorTick
       /\ UNCHANGED <<signalVars, compareVars, routeVars, engineVars>>
    \/ /\ cmp.pc = "running"
       /\ CorridorFinish
       /\ UNCHANGED <<signalVars, compareVars, routeVars, engineVars>>
    \/ GetComparisonReturn /\ UNCHANGED <<signalVars, routeVars, engineVars>>

(***************************************************************************)
(*                            core/graph.py                                *)
(***************************************************************************)
\* The modelled grid: generate_city_grid(rows, cols) on a grid of this size.
GridRows == 2
GridCols == 3

Nodes == (0 .. GridRows - 1) \X (0 .. GridCols - 1)
\* An id that is not a node of the network.
UnknownNode == <<GridRows, GridCols>>

\* Position of a node in the graph's node order (row-major, as added).
NodeOrder(n) == n[1] * GridCols + n[2]

Adjacent(a, b) ==
    \/ a[1] = b[1] /\ (a[2] = b[2] + 1 \/ b[2] = a[2] + 1)
    \/ a[2] = b[2] /\ (a[1] = b[1] + 1 \/ b[1] = a[1] + 1)

\* G.edges(): every undirected edge once, as (u, v) with u the endpoint that
\* comes first in the node order.
GraphEdges ==
    {e \in Nodes \X Nodes : Adjacent(e[1], e[2]) /\ NodeOrder(e[1]) < NodeOrder(e[2])}

\* The (u, v) under which G.edges() reports the edge between a and b.
EdgeOf(a, b) == IF NodeOrder(a) < NodeOrder(b) THEN <<a, b>> ELSE <<b, a>>

\* base_time = dist / (50 / 3.6), in seconds
BaseTime(dist) == (dist * 36) \div (50 * 10)

generate_city_grid ==
    [e \in GraphEdges |->
        [distance |-> 500, speed_limit |-> 50, base_time |-> BaseTime(500)]]

\* Queue depths a live-state provider reports, and the maps it may pass: no
\* map (the empty dict stands for None as well), one node with any depth, two
\* nodes with queues, or every node with an empty queue.
QueueValues == {0, 19, 50}
ZeroQueues == [n \in Nodes |-> 0]
TrafficMaps ==
    UNION {[S -> QueueValues] : S \in {X \in SUBSET Nodes : Cardinality(X) <= 1}}
    \cup UNION {[S -> QueueValues \ {0}] :
                   S \in {X \in SUBSET Nodes : Cardinality(X) = 2}}
    \cup {ZeroQueues}

\* traffic_data.get(v, 0)
QueueAt(traffic, v) == IF v \in DOMAIN traffic THEN traffic[v] ELSE 0

\* The weight the loop at graph.py:78-93 sets on edge (u, v) of the copy.
LiveWeight(graph, traffic, e) ==
    graph[e].base_time + QueueAt(traffic, e[2]) * 2

\* The weights when the branch for absent live data sets none: a missing
\* weight attribute counts as 1.
CurrentWeightsUnset(graph, traffic) ==
    IF DOMAIN traffic # {}
    THEN [e \in GraphEdges |-> graph[e].base_time + QueueAt(traffic, e[2]) * 2]
    ELSE [e \in GraphEdges |-> 1]

\* G[u][v]['current_weight'] for every edge, in both branches of `if traffic_data`.
CurrentWeights(graph, traffic) ==
    IF DOMAIN traffic # {}
    THEN [e \in GraphEdges |-> LiveWeight(graph, traffic, e)]
    ELSE [e \in GraphEdges |-> graph[e].base_time]

Neighbours(n) == {m \in Nodes : Adjacent(n, m)}

SetMin(S) == CHOOSE x \in S : \A y \in S : x <= y

\* The steps a path may take: the ordered pairs of adjacent nodes.
DirectedSteps == {p \in Nodes \X Nodes : Adjacent(p[1], p[2])}

\* G[a][b]['current_weight'] of the undirected copy: one value per edge,
\* whichever way it is crossed.
StepWeights(weights) ==
    [p \in DirectedSteps |-> weights[EdgeOf(p[1], p[2])]]

\* Cheapest cost from every node to target, w[<<a, b>>] being the cost of the
\* step from a into b; 999999 stands for "not reached".
RECURSIVE Relax(_, _, _)
Relax(w, d, k) ==
    IF k = 0 THEN d
    ELSE LET relaxed ==
                 [n \in Nodes |->
                     SetMin({d[n]} \cup {w[<<n, m>>] + d[m] : m \in Neighbours(n)})]
         IN  IF relaxed = d THEN d      \* nothing is left to improve
             ELSE Relax(w, relaxed, k - 1)

DistTo(w, target) ==
    Relax(w, [n \in Nodes |-> IF n = target THEN 0 ELSE 999999],
          Cardinality(Nodes) - 1)

\* All cheapest paths from a node to target, given the distances d to target.
RECURSIVE CheapestPaths(_, _, _, _)
CheapestPaths(w, d, n, target) ==
    IF n = target THEN {<<n>>}
    ELSE UNION {{<<n>> \o p : p \in CheapestPaths(w, d, m, target)} :
                m \in {x \in Neighbours(n) : d[n] = w[<<n, x>>] + d[x]}}

RECURSIVE PathCost(_, _)
PathCost(w, path) ==
    IF Len(path) <= 1 THEN 0
    ELSE w[<<path[1], path[2]>>] + PathCost(w, Tail(path))

\* How a call ends: it returns a path, or an exception leaves it.
Returned(path) == [exception |-> "none", path |-> path]
Raised(exc) == [exception |-> exc, path |-> << >>]

\* nx.shortest_path(G, source, target, weight='current_weight'): the outcomes.
\* An unknown source raises NodeNotFound; an unknown target raises NodeNotFound
\* (bidirectional_dijkstra) or NetworkXNoPath (dijkstra_path, older releases),
\* which get_best_route turns into []; otherwise a cheapest path.
ShortestPathOutcomes(weights, source, target) ==
    IF source \notin Nodes THEN {Raised("NodeNotFound")}
    ELSE IF target \notin Nodes THEN {Raised("NodeNotFound"), Returned(<< >>)}
    ELSE LET w == StepWeights(weights)
             d == DistTo(w, target)
         IN  IF d[source] >= 999999 THEN {Returned(<< >>)}
             ELSE {Returned(p) : p \in CheapestPaths(w, d, source, target)}

\* The static graph after a call that wrote its weights to CITY_GRAPH itself.
GraphAfterCallShared(graph, weights) ==
    [e \in GraphEdges |->
        [distance |-> graph[e].distance, speed_limit |-> graph[e].speed_limit,
         base_time |-> graph[e].base_time, current_weight |-> weights[e]]]

\* G = CITY_GRAPH.copy(): the weights are written to the copy's own attribute
\* dicts, the static graph keeps what it had.
GraphAfterCall(graph, weights) == graph

RouteInit ==
    /\ CITY_GRAPH = generate_city_grid
    /\ route_pc = "idle"
    /\ route_call = NoValue
    /\ route_weights = NoValue
    /\ route_result = Returned(<< >>)

\* get_best_route(start_node, end_node, traffic_data), the whole call.
get_best_route(start_node, end_node, traffic) ==
    LET weights == CurrentWeights(CITY_GRAPH, traffic)
    IN  /\ route_pc = "idle"
        /\ route_pc' = "returned"
        /\ route_call' = [start |-> start_node, end |-> end_node, traffic |-> traffic]
        /\ route_weights' = weights
        /\ route_result' \in ShortestPathOutcomes(weights, start_node, end_node)
        /\ CITY_GRAPH' = GraphAfterCall(CITY_GRAPH, weights)

\* The caller has taken the result; the call's copy G is dropped.
RouteReturn ==
    /\ route_pc = "returned"
    /\ route_pc' = "idle"
    /\ route_call' = NoValue
    /\ route_weights' = NoValue
    /\ route_result' = Returned(<< >>)
    /\ UNCHANGED CITY_GRAPH

RouteNext ==
    \/ /\ route_pc = "idle"
       /\ \E s \in Nodes \cup {UnknownNode}, e \in Nodes \cup {UnknownNode},
             traffic \in TrafficMaps :
              get_best_route(s, e, traffic) /\ UNCHANGED <<opt, corridorVars, engineVars>>
    \/ RouteReturn /\ UNCHANGED <<opt, corridorVars, engineVars>>

(***************************************************************************)
(*                          core/optimizer.py                              *)
(*                                                                         *)
(* TrafficOptimizer over the city grid.  Costs are counted in seconds, the *)
(* heuristic and the priorities of the A* queue in tenths of a second.     *)
(***************************************************************************)
\* What a live-state provider passes as realtime_data: nothing, or a dict with
\* the RED signals and the queue depths of at most one node each.
NoRealtime == [live |-> FALSE, signals |-> {}, queues |-> << >>]
RealtimeData ==
    {NoRealtime} \cup
    [ live    : {TRUE},
      signals : {X \in SUBSET Nodes : Cardinality(X) <= 1},
      queues  : UNION {[S -> {50}] : S \in {X \in SUBSET Nodes : Cardinality(X) <= 1}} ]

\* calculate_cost(u, v, data, realtime_data): travel time, plus 30 s if the
\* node entered shows RED, plus 2 s per queued vehicle there.
calculate_cost(u, v, data, realtime_data) ==
    data.base_time
    + IF realtime_data.live
      THEN (IF v \in realtime_data.signals THEN 30 ELSE 0)
           + QueueAt(realtime_data.queues, v) * 2
      ELSE 0

\* weight_func over every step of the graph.
StepCosts(graph, realtime_data) ==
    [p \in DirectedSteps |->
        calculate_cost(p[1], p[2], graph[EdgeOf(p[1], p[2])], realtime_data)]

\* floor(sqrt(n)), by bisection between lo and hi
RECURSIVE ISqrtBetween(_, _, _)
ISqrtBetween(n, lo, hi) ==
    IF lo = hi THEN lo
    ELSE LET mid == (lo + hi + 1) \div 2
         IN  IF mid * mid <= n THEN ISqrtBetween(n, mid, hi)
             ELSE ISqrtBetween(n, lo, mid - 1)

\* heuristic(n1, n2) = sqrt(dlat^2 + dlon^2) * 100000, in tenths: positions
\* are 0.0045 degrees apart per block (graph.py:21-28), so a block counts 450.
heuristic(n1, n2) ==
    ISqrtBetween(4500 * 4500
                    * ((n1[1] - n2[1]) * (n1[1] - n2[1])
                       + (n1[2] - n2[2]) * (n1[2] - n2[2])), 0, 46340)

\* parent None of the source
NoParent == << >>

\* The entries that may be popped next: those of least priority.  Entries of
\* equal priority are ordered by their push count, and by the last bits of the
\* floats where the model sees a tie; either may come first.
CheapestEntries(queue) == {e \in queue : \A o \in queue : e.f <= o.f}

\* The path read back through explored, from the source to node.
RECURSIVE PathBack(_, _)
PathBack(explored, node) ==
    IF node = NoParent THEN << >>
    ELSE Append(PathBack(explored, explored[node]), node)

\* nx.astar_path's loop: queue holds (priority, node, dist, parent), explored
\* maps an expanded node to its parent, enqueued a pushed node to its cost.
\* The result is the set of paths the loop may return, [] for NetworkXNoPath.
RECURSIVE AStarLoop(_, _, _, _, _)
AStarLoop(w, target, queue, explored, enqueued) ==
    IF queue = {} THEN {Returned(<< >>)}
    ELSE UNION {
        LET rest == queue \ {e}
        IN  IF e.node = target
            THEN {Returned(Append(PathBack(explored, e.parent), target))}
            ELSE IF /\ e.node \in DOMAIN explored
                    /\ \/ explored[e.node] = NoParent
                       \/ enqueued[e.node] < e.g
            THEN AStarLoop(w, target, rest, explored, enqueued)
            ELSE LET better == {n \in Neighbours(e.node) :
                                  \/ n \notin DOMAIN enqueued
                                  \/ enqueued[n] > e.g + w[<<e.node, n>>]}
                     explored2 == [n \in DOMAIN explored \cup {e.node} |->
                                     IF n = e.node THEN e.parent ELSE explored[n]]
                     enqueued2 == [n \in DOMAIN enqueued \cup better |->
                                     IF n \in better THEN e.g + w[<<e.node, n>>]
                                     ELSE enqueued[n]]
                     pushed == {[f |-> 10 * (e.g + w[<<e.node, n>>])
                                         + heuristic(n, target),
                                 node |-> n,
                                 g |-> e.g + w[<<e.node, n>>],
                                 parent |-> e.node] : n \in better}
                 IN  AStarLoop(w, target, rest \cup pushed, explored2, enqueued2)
        : e \in CheapestEntries(queue) }

\* nx.astar_path(G, source, target, heuristic, weight): NodeNotFound for an
\* endpoint that is not in G, else the loop from the source.
AStarOutcomes(w, source, target) ==
    IF source \notin Nodes \/ target \notin Nodes THEN {Raised("NodeNotFound")}
    ELSE AStarLoop(w, target,
                   {[f |-> 0, node |-> source, g |-> 0, parent |-> NoParent]},
                   << >>, << >>)

NoOptimizerCall ==
    [pc |-> "idle", start |-> UnknownNode, end |-> UnknownNode,
     realtime_data |-> NoRealtime, result |-> Returned(<< >>)]

OptimizerInit == opt = NoOptimizerCall

\* TrafficOptimizer(CITY_GRAPH).find_optimal_path(start_node, end_node,
\* realtime_data), the whole call; only NetworkXNoPath is caught.
find_optimal_path(start_node, end_node, realtime_data) ==
    /\ opt.pc = "idle"
    /\ \E r \in AStarOutcomes(StepCosts(CITY_GRAPH, realtime_data),
                              start_node, end_node) :
          opt' = [pc |-> "returned", start |-> start_node, end |-> end_node,
                  realtime_data |-> realtime_data, result |-> r]
    /\ UNCHANGED <<CITY_GRAPH, route_pc, route_call, route_weights, route_result>>

\* The caller has taken the path.
OptimizerReturn ==
    /\ opt.pc = "returned"
    /\ opt' = NoOptimizerCall
    /\ UNCHANGED <<CITY_GRAPH, route_pc, route_call, route_weights, route_result>>

OptimizerNext ==
    \/ /\ opt.pc = "idle"
       /\ \E s \in Nodes \cup {UnknownNode}, e \in Nodes \cup {UnknownNode},
             realtime_data \in RealtimeData :
              find_optimal_path(s, e, realtime_data)
              /\ UNCHANGED <<corridorVars, engineVars>>
    \/ OptimizerReturn /\ UNCHANGED <<corridorVars, engineVars>>

(***************************************************************************)
(*                      simulation/spat_engine.py                          *)
(*                                                                         *)
(* Times are counted in 1/20 s.  Every time of a source and every step is  *)
(* a multiple of 5 (a quarter second), every value rounded by round(x, 1)  *)
(* a multiple of 2 (a tenth).                                              *)
(***************************************************************************)
\* round(x, 1) of a time
RoundTenths(x) == 2 * MulDivRound(x, 1, 2)

\* row["phase"].strip().upper(), on the phase texts of the modelled sources
StripUpper(text) ==
    CASE text \in {"GREEN", "green", " Green "}    -> "GREEN"
      [] text \in {"YELLOW", "yellow", " Yellow "} -> "YELLOW"
      [] text \in {"RED", "red", " Red "}          -> "RED"
      [] OTHER                                     -> text

\* SpatEvent(float(row["time_s"]), row["intersection_id"].strip(),
\*           row["phase"].strip().upper(), float(row["duration_s"]))
SpatEvent(row) ==
    [ time_s          |-> row.time_s,
      intersection_id |-> row.intersection_id,
      phase           |-> StripUpper(row.phase),
      duration_s      |-> row.duration_s ]

\* A row parses unless a field is missing or time_s / duration_s is not numeric.
RowParses(row) == row.defect = "none"

\* Index of the first row that does not parse, 0 when all do.
FirstBadRow(src) ==
    IF \A k \in 1 .. Len(src) : RowParses(src[k]) THEN 0
    ELSE CHOOSE k \in 1 .. Len(src) :
             /\ ~RowParses(src[k])
             /\ \A j \in 1 .. (k - 1) : RowParses(src[j])

\* list.sort(key=lambda e: e.time_s): a stable sort by start time.
RECURSIVE InsertByTime(_, _)
InsertByTime(sorted, e) ==
    IF sorted = << >> THEN <<e>>
    ELSE IF sorted[Len(sorted)].time_s <= e.time_s THEN Append(sorted, e)
    ELSE Append(InsertByTime(SubSeq(sorted, 1, Len(sorted) - 1), e),
                sorted[Len(sorted)])

RECURSIVE SortByTime(_)
SortByTime(seq) ==
    IF seq = << >> THEN << >>
    ELSE InsertByTime(SortByTime(SubSeq(seq, 1, Len(seq) - 1)), seq[Len(seq)])

\* duration_s after the sort: set from the last event only `if self.events`.
DurationAfterLoad(evts, old) ==
    IF evts # << >>
    THEN evts[Len(evts)].time_s + evts[Len(evts)].duration_s
    ELSE old

\* The interval test made without its upper end open.
IntervalContainsClosed(evt, time) ==
    evt.time_s <= time /\ time <= evt.time_s + evt.duration_s

\* evt.time_s <= t < evt.time_s + evt.duration_s
IntervalContains(evt, time) ==
    evt.time_s <= time /\ time < evt.time_s + evt.duration_s

\* The inner loop of get_state_at over one intersection's events, from index k:
\* the first event whose interval contains t gives the phase, else "RED".
RECURSIVE ActivePhase(_, _, _, _)
ActivePhase(evts, node_id, time, k) ==
    IF k > Len(evts) THEN "RED"
    ELSE IF evts[k].intersection_id = node_id /\ IntervalContains(evts[k], time)
    THEN evts[k].phase
    ELSE ActivePhase(evts, node_id, time, k + 1)

get_state_at(evts, time) ==
    [node_id \in {evts[k].intersection_id : k \in 1 .. Len(evts)} |->
        ActivePhase(evts, node_id, time, 1)]

\* round(time / duration * 100, 1), in tenths of a percent
Progress(time, duration) == MulDivRound(time, 1000, duration)

(***************************************************************************)
(* The modelled callers and inputs.                                        *)
(***************************************************************************)
\* Generator objects replay() hands out.
Invocations == {"r1", "r2"}
\* Threads calling get_snapshot.
Pollers == {"p1", "p2"}
\* step_s of a replay: 0.25 s, 0.5 s and the default 1.0 s
Steps == {5, 10, 20}
\* Replay generators created on one engine.
MaxStarts == 2
\* load() calls made on one engine.
MaxLoads == 2

SourceTimes == {0, 10, 25}
SourceSpans == {10, 40}
PhaseTexts == {"green", " Yellow ", "RED"}
IntersectionIds == {"INT_0", "INT_1"}

GoodRows ==
    [ time_s : SourceTimes, intersection_id : IntersectionIds,
      phase : PhaseTexts, duration_s : SourceSpans, defect : {"none"} ]
\* A row with a field missing and a row whose time_s is not a number.
BadRows ==
    { [time_s |-> 0, intersection_id |-> "INT_0", phase |-> "green",
       duration_s |-> 10, defect |-> d] : d \in {"missing", "nonnumeric"} }

Row(time, node_id, text, span) ==
    [ time_s |-> time, intersection_id |-> node_id, phase |-> text,
      duration_s |-> span, defect |-> "none" ]

\* What the CSV file may hold when load() reads it: up to two rows.
LoadSources ==
    UNION {[1 .. n -> GoodRows \cup BadRows] : n \in 0 .. 2}
\* What it may hold when it is read again: up to one row.
ReloadSources ==
    UNION {[1 .. n -> GoodRows \cup BadRows] : n \in 0 .. 1}
\* The files replayed: one signal going GREEN, YELLOW, then dark (1.0 s);
\* two signals, 0.75 s; a file with a header and no rows.
ReplaySources ==
    { << Row(0, "INT_0", "green", 10), Row(10, "INT_0", " Yellow ", 10) >>,
      << Row(5, "INT_1", "green", 10), Row(0, "INT_0", "green", 5) >>,
      << >> }
QueryTimes == {0, 5, 10, 20, 25, 35, 50, 65}

NoSnapshot ==
    [time_s |-> 0, duration_s |-> 0, progress |-> 0, states |-> << >>, taken |-> FALSE]
NoFrame ==
    [pc |-> "none", t |-> 0, step_s |-> 0, state |-> << >>, out |-> << >>,
     born |-> 0]

NoQuery == [asked |-> FALSE, time |-> 0, result |-> << >>]

EngineInit ==
    /\ events = << >>
    /\ duration_s = 0
    /\ loaded = FALSE
    /\ current_time = 0
    /\ current_state = << >>
    /\ lock = "free"
    /\ load_count = 0
    /\ load_result = "none"
    /\ inv = [i \in Invocations |-> NoFrame]
    /\ started = 0
    /\ poll = [p \in Pollers |-> [pc |-> "idle", time_s |-> 0]]
    /\ last_snapshot = NoSnapshot
    /\ query = NoQuery
    /\ timeline = << >>
    /\ timeline_result = "none"

\* ---- load ---------------------------------------------------------------
\* What load() leaves in events, duration_s, _loaded when the file holds src.
\* A row that does not parse raises out of the loop: the events appended so
\* far stay, the sort and the lines after it do not run.
LoadOutcome(src) ==
    LET bad == FirstBadRow(src)
    IN  IF bad = 0
        THEN LET evts == SortByTime([k \in 1 .. Len(src) |-> SpatEvent(src[k])])
             IN  [ events |-> evts,
                   duration_s |-> DurationAfterLoad(evts, duration_s),
                   loaded |-> TRUE,
                   result |-> "ok" ]
        ELSE [ events |-> [k \in 1 .. (bad - 1) |-> SpatEvent(src[k])],
               duration_s |-> duration_s,
               loaded |-> loaded,
               result |-> "raised" ]

LoadEffect(src) ==
    /\ load_count < MaxLoads
    /\ load_count' = load_count + 1
    /\ events' = LoadOutcome(src).events
    /\ duration_s' = LoadOutcome(src).duration_s
    /\ loaded' = LoadOutcome(src).loaded
    /\ load_result' = LoadOutcome(src).result

\* A load that also rewinds the shared replay state.
LoadRewinding(src) ==
    /\ LoadEffect(src)
    /\ query' = NoQuery
    /\ current_time' = 0
    /\ current_state' = << >>
    /\ UNCHANGED <<lock, inv, started, poll, last_snapshot>>

\* engine.load()
Load(src) ==
    /\ LoadEffect(src)
    /\ query' = NoQuery      \* results handed out before belong to the old events
    /\ UNCHANGED <<current_time, current_state, lock, inv, started, poll,
                   last_snapshot>>

\* engine.get_state_at(t), called from outside
GetStateAtCall(time) ==
    /\ query' = [asked |-> TRUE, time |-> time, result |-> get_state_at(events, time)]
    /\ UNCHANGED <<events, duration_s, loaded, current_time, current_state, lock,
                   load_count, load_result, inv, started, poll, last_snapshot>>

LoadNext ==
    \/ \E src \in LoadSources :
          load_count = 0 /\ Load(src) /\ UNCHANGED <<corridorVars, routeVars, timelineVars>>
    \/ \E src \in ReloadSources :
          load_count > 0 /\ Load(src) /\ UNCHANGED <<corridorVars, routeVars, timelineVars>>
    \/ \E time \in QueryTimes :
          GetStateAtCall(time) /\ UNCHANGED <<corridorVars, routeVars, timelineVars>>

\* ---- get_snapshot ------------------------------------------------------
\* `with self._lock` can be entered by anyone at any time.
CanAcquireUnguarded(thread) == TRUE

\* `with self._lock` is entered only while nobody holds the lock.
CanAcquire(thread) == lock = "free"

\* get_snapshot enters `with self._lock`.
PollAcquire(p) ==
    /\ poll[p].pc = "idle"
    /\ CanAcquire(p)
    /\ lock' = p
    /\ poll' = [poll EXCEPT ![p].pc = "rtime"]
    /\ UNCHANGED <<events, duration_s, loaded, current_time, current_state,
                   load_count, load_result, inv, started, last_snapshot, query>>

\* "time_s": self._current_time
PollReadTime(p) ==
    /\ poll[p].pc = "rtime"
    /\ poll' = [poll EXCEPT ![p] = [pc |-> "rstate", time_s |-> current_time]]
    /\ UNCHANGED <<events, duration_s, loaded, current_time, current_state, lock,
                   load_count, load_result, inv, started, last_snapshot, query>>

\* The progress expression with its division made whatever the duration.
SnapshotProgressUnguarded(time, duration) ==
    IF duration = 0
    THEN [raised |-> TRUE, progress |-> 0]
    ELSE [raised |-> FALSE, progress |-> Progress(time, duration)]

\* round(self._current_time / self.duration_s * 100, 1) if self.duration_s else 0
SnapshotProgress(time, duration) ==
    IF duration # 0
    THEN [raised |-> FALSE, progress |-> Progress(time, duration)]
    ELSE [raised |-> FALSE, progress |-> 0]

\* "duration_s", "progress", "states": dict(self._current_state); the lock is
\* released and the dict returned (or an exception leaves the `with` block).
PollReturn(p) ==
    /\ poll[p].pc = "rstate"
    /\ LET r == SnapshotProgress(current_time, duration_s)
       IN  IF r.raised
           THEN /\ poll' = [poll EXCEPT ![p].pc = "raised"]
                /\ UNCHANGED last_snapshot
           ELSE /\ poll' = [poll EXCEPT ![p].pc = "idle"]
                /\ last_snapshot' =
                      [ time_s     |-> poll[p].time_s,
                        duration_s |-> duration_s,
                        progress   |-> r.progress,
                        states     |-> current_state,
                        taken      |-> TRUE ]
    /\ lock' = "free"
    /\ UNCHANGED <<events, duration_s, loaded, current_time, current_state,
                   load_count, load_result, inv, started, query>>

\* ---- replay -------------------------------------------------------------
\* A replay that takes up the shared current time instead of starting at 0.
ReplayResumeTime == current_time

\* t = 0.0
ReplayStartTime == 0

\* The lock is still held when the generator yields.
LockKeptAcrossYield(i) == i

\* Leaving `with self._lock` before the yield frees the lock.
LockAfterWrite(i) == "free"

\* The frame at the top of `while t <= self.duration_s`, t just set to time:
\* inside the loop with state = self.get_state_at(t), or past its end.
LoopTop(frame, time, evts, duration) ==
    IF time <= duration
    THEN [frame EXCEPT !.pc = "acquire", !.t = time,
                       !.state = get_state_at(evts, time)]
    ELSE [frame EXCEPT !.pc = "done", !.t = time]

\* A name free for a new generator: its last one runs no more: never created, exhausted, closed or failed.
Ended(i) == inv[i].pc \in {"none", "done", "closed", "raised"}

\* engine.replay(speed, step_s): a generator is created; none of its code runs.
ReplayCreate(i, step) ==
    /\ Ended(i)
    /\ started < MaxStarts
    /\ started' = started + 1
    /\ inv' = [inv EXCEPT ![i] = [NoFrame EXCEPT !.pc = "created", !.step_s = step,
                                                 !.born = started + 1]]
    /\ UNCHANGED <<events, duration_s, loaded, current_time, current_state, lock,
                   load_count, load_result, poll, last_snapshot, query>>

\* The first next(): load() if the engine is not loaded (the file holds src),
\* t = 0.0, and the first test of the loop.
ReplayFirstNext(i, src) ==
    /\ inv[i].pc = "created"
    /\ IF loaded
       THEN /\ inv' = [inv EXCEPT ![i] =
                          LoopTop(inv[i], ReplayStartTime, events, duration_s)]
            /\ UNCHANGED <<events, duration_s, loaded, load_count, load_result>>
       ELSE /\ LoadEffect(src)
            /\ inv' = [inv EXCEPT ![i] =
                          IF LoadOutcome(src).result = "raised"
                          THEN [inv[i] EXCEPT !.pc = "raised"]
                          ELSE LoopTop(inv[i], ReplayStartTime, LoadOutcome(src).events,
                                       LoadOutcome(src).duration_s)]
    /\ UNCHANGED <<current_time, current_state, lock, started, poll,
                   last_snapshot, query>>

\* replay enters `with self._lock`.
ReplayAcquire(i) ==
    /\ inv[i].pc = "acquire"
    /\ CanAcquire(i)
    /\ lock' = i
    /\ inv' = [inv EXCEPT ![i].pc = "wtime"]
    /\ UNCHANGED <<events, duration_s, loaded, current_time, current_state,
                   load_count, load_result, started, poll, last_snapshot, query>>

\* self._current_time = t
ReplayWriteTime(i) ==
    /\ inv[i].pc = "wtime"
    /\ current_time' = inv[i].t
    /\ inv' = [inv EXCEPT ![i].pc = "wstate"]
    /\ UNCHANGED <<events, duration_s, loaded, current_state, lock,
                   load_count, load_result, started, poll, last_snapshot, query>>

\* self._current_state = state, and the `with` block is left.
ReplayWriteState(i) ==
    /\ inv[i].pc = "wstate"
    /\ current_state' = inv[i].state
    /\ lock' = LockAfterWrite(i)
    /\ inv' = [inv EXCEPT ![i].pc = "yield"]
    /\ UNCHANGED <<events, duration_s, loaded, current_time,
                   load_count, load_result, started, poll, last_snapshot, query>>

\* The dict of the yield is built (t / self.duration_s raises ZeroDivisionError
\* when duration_s is 0) and handed to the consumer.
ReplayYield(i) ==
    /\ inv[i].pc = "yield"
    /\ inv' = [inv EXCEPT ![i] =
                  IF duration_s = 0
                  THEN [inv[i] EXCEPT !.pc = "raised"]
                  ELSE [inv[i] EXCEPT
                           !.pc = "yielded",
                           !.out = Append(@, [ time_s     |-> RoundTenths(inv[i].t),
                                               duration_s |-> duration_s,
                                               progress   |-> Progress(inv[i].t, duration_s),
                                               states     |-> inv[i].state ])]]
    /\ UNCHANGED <<events, duration_s, loaded, current_time, current_state, lock,
                   load_count, load_result, started, poll, last_snapshot, query>>

\* The consumer pulls the next snapshot: the generator resumes into time.sleep.
ReplayNext(i) ==
    /\ inv[i].pc = "yielded"
    /\ inv' = [inv EXCEPT ![i].pc = "sleeping"]
    /\ UNCHANGED <<events, duration_s, loaded, current_time, current_state, lock,
                   load_count, load_result, started, poll, last_snapshot, query>>

\* A replay that advances by half a step.
ReplayAdvanceHalfStep(time, step) == time + step \div 2

\* t += step_s
ReplayAdvance(time, step) == time + step

\* The sleep ends: t += step_s, and the loop is tested again.
ReplayWake(i) ==
    /\ inv[i].pc = "sleeping"
    /\ inv' = [inv EXCEPT ![i] =
                  LoopTop(inv[i], ReplayAdvance(inv[i].t, inv[i].step_s),
                          events, duration_s)]
    /\ UNCHANGED <<events, duration_s, loaded, current_time, current_state, lock,
                   load_count, load_result, started, poll, last_snapshot, query>>

\* The consumer drops the generator it was iterating: GeneratorExit at the yield.
ReplayAbandon(i) ==
    /\ inv[i].pc = "yielded"
    /\ inv' = [inv EXCEPT ![i].pc = "closed"]
    /\ UNCHANGED <<events, duration_s, loaded, current_time, current_state, lock,
                   load_count, load_result, started, poll, last_snapshot, query>>

\* One engine, loaded at most once from outside, one replay driver at a time
\* (a next one is created once the last has ended), and the get_snapshot
\* callers polling alongside.
ReplayStep ==
    \/ \E src \in ReplaySources : load_count = 0 /\ Load(src)
    \/ \E i \in Invocations, step \in Steps :
          (\A j \in Invocations : Ended(j)) /\ ReplayCreate(i, step)
    \/ \E i \in Invocations, src \in ReplaySources : ReplayFirstNext(i, src)
    \/ \E i \in Invocations : ReplayAcquire(i)
    \/ \E i \in Invocations : ReplayWriteTime(i)
    \/ \E i \in Invocations : ReplayWriteState(i)
    \/ \E i \in Invocations : ReplayYield(i)
    \/ \E i \in Invocations : ReplayNext(i)
    \/ \E i \in Invocations : ReplayWake(i)
    \/ \E i \in Invocations : ReplayAbandon(i)
    \/ \E p \in Pollers : PollAcquire(p)
    \/ \E p \in Pollers : PollReadTime(p)
    \/ \E p \in Pollers : PollReturn(p)

EngineNext == ReplayStep /\ UNCHANGED <<corridorVars, routeVars, timelineVars>>

\* ---- build_timeline ------------------------------------------------------
\* int(x) of a time: truncation to whole seconds (20 units make a second).
IntSeconds(x) == IF x >= 0 THEN x \div 20 ELSE 0 - ((0 - x) \div 20)

\* len(range(0, stop, 5))
RangeLen(stop) == IF stop <= 0 THEN 0 ELSE (stop + 4) \div 5

\* The marks with the end of the range left out.
TimelineMarksExclusive(duration) ==
    [k \in 1 .. RangeLen(IntSeconds(duration)) |-> 100 * (k - 1)]

\* range(0, int(self.duration_s) + 1, 5): the 5-second marks, as times
TimelineMarks(duration) ==
    [k \in 1 .. RangeLen(IntSeconds(duration) + 1) |-> 100 * (k - 1)]

\* [{"time_s": t, "states": self.get_state_at(float(t))} for t in range(...)]
TimelineOf(evts, duration) ==
    [k \in 1 .. Len(TimelineMarks(duration)) |->
        [ time_s |-> TimelineMarks(duration)[k],
          states |-> get_state_at(evts, TimelineMarks(duration)[k]) ]]

\* Scenarios long enough for several 5-second marks: starts at 0 s, 5 s and
\* 7.5 s, lasting 2.5 s or 5 s.
TimelineTimes == {0, 100, 150}
TimelineSpans == {50, 100}
TimelineRows ==
    [ time_s : TimelineTimes, intersection_id : IntersectionIds,
      phase : {"green", "RED"}, duration_s : TimelineSpans, defect : {"none"} ]
TimelineSources ==
    UNION {[1 .. n -> TimelineRows \cup BadRows] : n \in 0 .. 2}

\* engine.build_timeline(): load() first if the engine is not loaded (the file
\* holds src), then the whole list at once.
BuildTimeline(src) ==
    /\ IF loaded
       THEN /\ timeline' = TimelineOf(events, duration_s)
            /\ timeline_result' = "ok"
            /\ UNCHANGED <<events, duration_s, loaded, load_count, load_result>>
       ELSE /\ LoadEffect(src)
            /\ IF LoadOutcome(src).result = "raised"
               THEN /\ timeline_result' = "raised"
                    /\ UNCHANGED timeline
               ELSE /\ timeline' = TimelineOf(LoadOutcome(src).events,
                                              LoadOutcome(src).duration_s)
                    /\ timeline_result' = "ok"
    /\ UNCHANGED <<current_time, current_state, lock, inv, started, poll,
                   last_snapshot, query>>

\* One engine: loads from outside and build_timeline calls, in any order.  A
\* list handed out before a load belongs to the old events.
TimelineNext ==
    \/ \E src \in TimelineSources :
          /\ Load(src)
          /\ timeline' = << >>
          /\ timeline_result' = "none"
          /\ UNCHANGED <<corridorVars, routeVars>>
    \/ \E src \in TimelineSources :
          BuildTimeline(src) /\ UNCHANGED <<corridorVars, routeVars>>

Init == CorridorInit /\ CompareInit /\ RouteInit /\ OptimizerInit /\ EngineInit

SpecCorridor == Init /\ [][CorridorNext]_vars
SpecRoute == Init /\ [][RouteNext]_vars
SpecLoad == Init /\ [][LoadNext]_vars
SpecReplay == Init /\ [][EngineNext]_vars
SpecTimeline == Init /\ [][TimelineNext]_vars
SpecSignals == Init /\ [][SignalNext]_vars
SpecCompare == Init /\ [][CompareNext]_vars
SpecOptimizer == Init /\ [][OptimizerNext]_vars

(***************************************************************************)
(* One engine used through all of its methods: loads and reloads at any    *)
(* time, get_state_at and build_timeline calls, a get_snapshot caller, and  *)
(* one replay generator.                                                    *)
(***************************************************************************)
SharedQueryTimes == {0, 10}
SharedPollers == {"p1"}
SharedReplay == "r1"

\* A step of the code of a replay generator, or its consumer dropping it.
ReplayRun(i) ==
    \/ \E src \in ReplaySources : ReplayFirstNext(i, src)
    \/ ReplayAcquire(i)
    \/ ReplayWriteTime(i)
    \/ ReplayWriteState(i)
    \/ ReplayYield(i)
    \/ ReplayNext(i)
    \/ ReplayWake(i)
    \/ ReplayAbandon(i)

\* A step of a get_snapshot call.
GetSnapshotStep(p) ==
    \/ PollAcquire(p)
    \/ PollReadTime(p)
    \/ PollReturn(p)

SharedNext ==
    \/ \E src \in ReplaySources :
          /\ Load(src)
          /\ timeline' = << >>
          /\ timeline_result' = "none"
          /\ UNCHANGED <<corridorVars, routeVars>>
    \/ \E time \in SharedQueryTimes :
          GetStateAtCall(time) /\ UNCHANGED <<corridorVars, routeVars, timelineVars>>
    \/ \E src \in ReplaySources :
          BuildTimeline(src) /\ UNCHANGED <<corridorVars, routeVars>>
    \/ \E p \in SharedPollers :
          GetSnapshotStep(p) /\ UNCHANGED <<corridorVars, routeVars, timelineVars>>
    \/ \E step \in Steps :
          /\ started = 0
          /\ ReplayCreate(SharedReplay, step)
          /\ UNCHANGED <<corridorVars, routeVars, timelineVars>>
    \/ ReplayRun(SharedReplay) /\ UNCHANGED <<corridorVars, routeVars, timelineVars>>

\* Two replay generators of one loaded engine consumed side by side, with a
\* get_snapshot caller.
ConcurrentNext ==
    \/ \E src \in ReplaySources :
          load_count = 0 /\ Load(src)
          /\ UNCHANGED <<corridorVars, routeVars, timelineVars>>
    \/ \E p \in SharedPollers :
          GetSnapshotStep(p) /\ UNCHANGED <<corridorVars, routeVars, timelineVars>>
    \/ \E i \in Invocations, step \in Steps :
          ReplayCreate(i, step) /\ UNCHANGED <<corridorVars, routeVars, timelineVars>>
    \/ \E i \in Invocations :
          ReplayRun(i) /\ UNCHANGED <<corridorVars, routeVars, timelineVars>>

SpecShared == Init /\ [][SharedNext]_vars
SpecConcurrent == Init /\ [][ConcurrentNext]_vars

\* C1: after every tick of run_comparison every node's queue is >= 0 under both
\* policies, and so is the total queue of every emitted record.
C1_QueueNonNegative ==
    /\ \A i \in NodeIdx : baseline_states[i].queue >= 0
                          /\ optimized_states[i].queue >= 0
    /\ \A k \in 1 .. Len(baseline_series) : baseline_series[k].queue_length >= 0
    /\ \A k \in 1 .. Len(optimized_series) : optimized_series[k].queue_length >= 0

\* C1 witness: a run has ticked, a GREEN discharge has hit the floor at zero
\* and another node holds a queue.
C1_Witness ==
    /\ rc_pc = "loop"
    /\ Len(baseline_series) >= 3
    /\ \E i \in NodeIdx : optimized_states[i].queue = 0
    /\ \E i \in NodeIdx : baseline_states[i].queue > 0


\* C3 (the claim as stated): a call whose start or end id is not a node of the
\* network returns the empty sequence as a normal result.
C3_UnknownEndpointReturnsEmpty ==
    (route_pc = "returned"
        /\ (route_call.start \notin Nodes \/ route_call.end \notin Nodes))
    => route_result = Returned(<< >>)

\* The cost the claims charge for the step from a into b: base travel time
\* plus 2.0 s per vehicle queued at b, the node entered.
EnteredNodeCost ==
    [p \in DirectedSteps |->
        CITY_GRAPH[EdgeOf(p[1], p[2])].base_time
            + QueueAt(route_call.traffic, p[2]) * 2]

\* C4 (the claim as stated): with live queues supplied, the weight the call
\* charges for the step from a into b is base_time + 2.0 * queue(b), in both
\* directions of travel over every edge.
C4_PenaltyOfNodeEntered ==
    (route_pc = "returned" /\ DOMAIN route_call.traffic # {})
    => \A a \in Nodes : \A b \in Neighbours(a) :
           route_weights[EdgeOf(a, b)] = EnteredNodeCost[<<a, b>>]

\* C5 (the claim as stated): for known endpoints the returned path runs from
\* start to end and its total entered-node cost is the minimum over all paths.
C5_RouteHasMinimumCost ==
    (route_pc = "returned" /\ route_call.start \in Nodes /\ route_call.end \in Nodes)
    => /\ route_result.exception = "none"
       /\ Len(route_result.path) >= 1
       /\ route_result.path[1] = route_call.start
       /\ route_result.path[Len(route_result.path)] = route_call.end
       /\ PathCost(EnteredNodeCost, route_result.path)
              = DistTo(EnteredNodeCost, route_call.end)[route_call.start]


C10_LoadSetsDuration ==
    load_result = "ok" =>
        /\ \A i, j \in 1 .. Len(events) :
              i < j => events[i].time_s <= events[j].time_s
        /\ duration_s = IF events = << >> THEN 0
                        ELSE events[Len(events)].time_s
                             + events[Len(events)].duration_s


\* C2: no get_snapshot result is a torn pair: the (time_s, states) it returns is
\* the initial pair (0, empty map) or a pair one replay step wrote together, so
\* that states = get_state_at(time_s).
C2_SnapshotNotTorn ==
    last_snapshot.taken =>
        \/ last_snapshot.time_s = 0 /\ last_snapshot.states = << >>
        \/ last_snapshot.states = get_state_at(events, last_snapshot.time_s)

\* C2 witness: a snapshot of an advanced replay has been returned, and now one
\* caller reads under the lock while the replay, with a later time to write,
\* and the other caller wait for it.
C2_Witness ==
    /\ last_snapshot.taken
    /\ last_snapshot.time_s > 0
    /\ last_snapshot.states # << >>
    /\ \E p \in Pollers :
          /\ poll[p].pc = "rstate" /\ lock = p
          /\ \E q \in Pollers \ {p} : poll[q].pc = "idle"
    /\ \E i \in Invocations : inv[i].pc = "acquire" /\ inv[i].t > last_snapshot.time_s

\* C6 (the claim as stated): on an engine with duration > 0 an exhausted replay
\* has yielded exactly the snapshots for the times 0, step, 2*step, ... up to
\* the largest multiple of step <= duration, each with states = get_state_at(time).
C6_ReplayYieldsEveryStep ==
    \A i \in Invocations :
        (inv[i].pc = "done" /\ duration_s > 0) =>
            /\ Len(inv[i].out) = duration_s \div inv[i].step_s + 1
            /\ \A k \in 1 .. Len(inv[i].out) :
                  /\ inv[i].out[k].time_s = (k - 1) * inv[i].step_s
                  /\ inv[i].out[k].states = get_state_at(events, inv[i].out[k].time_s)

\* C7 (parts): a replay holds the lock neither while suspended at a yield, nor while
\* sleeping, nor once abandoned, so the lock is then free or held by a
\* get_snapshot caller that will release it; and the shared replay state
\* changes only by the write steps of a replay that is inside its `with` block,
\* never by an abandoned one.
C7_NoLockAtYield ==
    \A i \in Invocations :
        inv[i].pc \in {"yielded", "sleeping", "closed"} => lock # i

C7_OnlyWritersWrite ==
    (current_time' # current_time \/ current_state' # current_state)
    => \E j \in Invocations :
           /\ inv[j].pc \in {"wtime", "wstate"}
           /\ inv'[j].pc # inv[j].pc
           /\ \A i \in Invocations \ {j} : inv'[i] = inv[i]

\* C7: an abandoned replay is inert: at every yield, sleep and after being
\* abandoned the replay does not hold the lock, and every change of the shared
\* time or states is a write step of a replay inside its `with` block.
C7_AbandonedReplayIsInert ==
    []C7_NoLockAtYield /\ [][C7_OnlyWritersWrite]_vars

\* C7 witness: a replay was abandoned after its second snapshot or later, the
\* shared time still is that snapshot's, and a get_snapshot caller holds the lock.
C7_Witness ==
    \E i \in Invocations :
        /\ inv[i].pc = "closed"
        /\ Len(inv[i].out) >= 2
        /\ current_time = inv[i].t
        /\ lock \in Pollers

\* C8 (parts): replay is re-entrant.  Whatever ran before, a replay's first snapshot is
\* for time 0 and its first write sets the shared current time to 0; and two
\* replays with the same step yield the same snapshots, one after one: the
\* shorter sequence (an abandoned replay's) is a prefix of the longer, and two
\* exhausted replays yielded the same sequence.
C8_StartsAtZero ==
    \A i \in Invocations :
        /\ Len(inv[i].out) >= 1 => inv[i].out[1].time_s = 0
        /\ \A j \in Invocations :
              inv[i].step_s = inv[j].step_s =>
                  /\ \A k \in 1 .. Min(Len(inv[i].out), Len(inv[j].out)) :
                        inv[i].out[k] = inv[j].out[k]
                  /\ (inv[i].pc = "done" /\ inv[j].pc = "done")
                        => Len(inv[i].out) = Len(inv[j].out)

C8_FirstWriteResetsTime ==
    \A i \in Invocations :
        (inv[i].pc = "wtime" /\ inv'[i].pc = "wstate" /\ inv[i].out = << >>)
            => current_time' = 0

\* C8: replay is re-entrant: every replay starts at time 0 whatever ran before
\* it, its first write resets the shared time to 0, and replays with the same
\* step yield the same snapshots.
C8_ReplayReentrant ==
    []C8_StartsAtZero /\ [][C8_FirstWriteResetsTime]_vars

\* C8 witness: the first replay was abandoned after two or more snapshots, and
\* the replay created after it, with the same step, has run to its end.
C8_Witness ==
    /\ inv["r1"].born = 1
    /\ inv["r1"].pc = "closed"
    /\ Len(inv["r1"].out) >= 2
    /\ inv["r2"].born = 2
    /\ inv["r2"].pc = "done"
    /\ inv["r2"].step_s = inv["r1"].step_s
    /\ Len(inv["r2"].out) >= 3

\* C11 (the claim as stated): after a load that failed on a malformed row, an
\* engine that was never loaded holds no events of the source, and get_state_at
\* reports no intersection of a partly read source.
C11_NoPartialLoad ==
    (load_result = "raised" /\ ~loaded) =>
        /\ events = << >>
        /\ query.asked => query.result = << >>

\* C12 (parts): no get_snapshot call ends in an exception, and the progress of
\* a returned snapshot is 0 when its duration is 0 and otherwise its time over
\* its duration as a percentage rounded to one decimal (ties to even).
C12_SnapshotWellFormed ==
    /\ \A p \in Pollers : poll[p].pc # "raised"
    /\ last_snapshot.taken =>
          last_snapshot.progress =
              IF last_snapshot.duration_s = 0 THEN 0
              ELSE MulDivRound(last_snapshot.time_s, 1000, last_snapshot.duration_s)

\* C12 (parts): a get_snapshot call that leaves its `with` block returns, and
\* what it returns is the engine's current time, duration and phase map.
C12_ReturnsCurrentValues ==
    \A p \in Pollers :
        (poll[p].pc = "rstate" /\ poll'[p].pc # "rstate") =>
            /\ poll'[p].pc = "idle"
            /\ last_snapshot'.taken
            /\ last_snapshot'.time_s = current_time
            /\ last_snapshot'.duration_s = duration_s
            /\ last_snapshot'.states = current_state

\* C12 (amended): get_snapshot never fails, in any engine state; it returns the
\* current time, the duration, the phase map, and progress = round(current_time
\* / duration * 100, 1) when the duration is non-zero and 0 when it is 0.
C12_GetSnapshotReturns ==
    []C12_SnapshotWellFormed /\ [][C12_ReturnsCurrentValues]_vars

\* C12 (the claim as stated): the progress of a returned snapshot is exactly
\* current_time / duration * 100 (progress is counted in tenths of a percent),
\* and 0 when the duration is 0.
C12_ProgressIsExactRatio ==
    last_snapshot.taken =>
        IF last_snapshot.duration_s = 0 THEN last_snapshot.progress = 0
        ELSE last_snapshot.progress * last_snapshot.duration_s
                 = 1000 * last_snapshot.time_s

\* C12 witness: a snapshot taken while a replay runs, of a time that is a
\* third of the duration (progress 33.3), has been returned, and a caller is
\* inside get_snapshot again.
C12_Witness ==
    /\ last_snapshot.taken
    /\ last_snapshot.duration_s = 15
    /\ last_snapshot.time_s = 5
    /\ last_snapshot.progress = 333
    /\ \E i \in Invocations : inv[i].pc \in {"sleeping", "acquire"}
    /\ \E p \in Pollers : poll[p].pc = "rtime"

\* C13: build_timeline returns exactly one entry for each time 0, 5, 10, ...,
\* 5*floor(duration/5) s, in increasing order, the last one <= duration, each
\* with states = get_state_at(that time); one entry, for time 0, on duration 0.
C13_TimelineEveryFiveSeconds ==
    timeline_result = "ok" =>
        /\ Len(timeline) = duration_s \div 100 + 1
        /\ \A k \in 1 .. Len(timeline) :
              /\ timeline[k].time_s = 100 * (k - 1)
              /\ timeline[k].time_s <= duration_s
              /\ timeline[k].states = get_state_at(events, timeline[k].time_s)
        /\ duration_s = 0 =>
              timeline = << [time_s |-> 0, states |-> get_state_at(events, 0)] >>

\* C13 witness: a timeline of a 10 s scenario, whose last mark is the duration
\* itself, with a signal that is GREEN at 0 s and RED at 10 s.
C13_Witness ==
    /\ timeline_result = "ok"
    /\ duration_s = 200
    /\ Len(timeline) = 3
    /\ \E n \in DOMAIN timeline[1].states :
          timeline[1].states[n] = "GREEN" /\ timeline[3].states[n] = "RED"

\* C14: a run_comparison call with duration d >= 0 emits one record per policy
\* per tick: while it runs the two series have the same time stamps 0, 5, 10,
\* ..., and when it has returned each has floor(d/5)+1 records, the last at
\* 5*floor(d/5); for d = 300 that is 61 records.
C14_OneRecordPerTick ==
    /\ Len(baseline_series) = Len(optimized_series)
    /\ \A k \in 1 .. Len(baseline_series) :
          /\ baseline_series[k].time_s = DT * (k - 1)
          /\ optimized_series[k].time_s = DT * (k - 1)
    /\ (rc_pc = "done" /\ rc_duration >= 0) =>
          /\ Len(baseline_series) = rc_duration \div DT + 1
          /\ rc_duration = 300 => Len(baseline_series) = 61

\* C14 witness: the run of 300 s has returned with 61 records, the last for
\* time 300.
C14_Witness ==
    /\ rc_pc = "done"
    /\ rc_duration = 300
    /\ Len(optimized_series) = 61
    /\ optimized_series[61].time_s = 300

\* C15: every sequence of get_best_route calls leaves the static network as
\* generate_city_grid built it (same edges, distance, speed_limit, base_time),
\* and the weights of a call are those of its own queue map alone: nothing of
\* an earlier call shows in them.
C15_NetworkUnchanged ==
    /\ CITY_GRAPH = generate_city_grid
    /\ route_pc = "returned" =>
          route_weights = CurrentWeights(generate_city_grid, route_call.traffic)
    /\ route_pc = "idle" => route_weights = NoValue

\* C15 witness: a call with live queues has returned, with an edge of its copy
\* weighing more than the edge's base time.
C15_Witness ==
    /\ route_pc = "returned"
    /\ route_call.start \in Nodes /\ route_call.end \in Nodes
    /\ Len(route_result.path) >= 3
    /\ \E e \in GraphEdges : route_weights[e] > CITY_GRAPH[e].base_time

\* C16: a call without live queues weighs every edge at its base travel time;
\* for known endpoints it returns a route, whose total cost is that of every
\* route the call returns when every node's queue is given as 0.
C16_NoLiveDataIsStaticWeights ==
    (route_pc = "returned" /\ DOMAIN route_call.traffic = {}) =>
        /\ route_weights = [e \in GraphEdges |-> CITY_GRAPH[e].base_time]
        /\ (route_call.start \in Nodes /\ route_call.end \in Nodes) =>
              /\ route_result.exception = "none"
              /\ Len(route_result.path) >= 1
              /\ \A other \in ShortestPathOutcomes(
                                  CurrentWeights(CITY_GRAPH, ZeroQueues),
                                  route_call.start, route_call.end) :
                    /\ other.exception = "none"
                    /\ PathCost(StepWeights(CurrentWeights(CITY_GRAPH, ZeroQueues)),
                                other.path)
                         = PathCost(StepWeights(route_weights), route_result.path)

\* C16 witness: a call without live queues between two opposite corners has
\* returned a route.
C16_Witness ==
    /\ route_pc = "returned"
    /\ DOMAIN route_call.traffic = {}
    /\ route_call.start = <<0, 0>>
    /\ route_call.end = <<GridRows - 1, GridCols - 1>>
    /\ Len(route_result.path) = GridRows + GridCols - 1

\* C17: baseline_signal(t, i) is GREEN when ((t + (13*i mod 90)) mod 90) < 40,
\* YELLOW when it is in [40, 45), RED otherwise; it has period 90 in t; and it
\* is GREEN at (0, 0), YELLOW at (42, 0), RED at (46, 0).
C17_BaselineSignalPhases ==
    sig.fn = "baseline" =>
        LET local == (sig.time + ((13 * sig.node_idx) % 90)) % 90
        IN  /\ sig.phase \in {"GREEN", "YELLOW", "RED"}
            /\ sig.phase = "GREEN" <=> local < 40
            /\ sig.phase = "YELLOW" <=> (40 <= local /\ local < 45)
            /\ sig.phase = "RED" <=> 45 <= local
            /\ sig.phase_next_cycle = sig.phase
            /\ (sig.node_idx = 0 /\ sig.time = 0) => sig.phase = "GREEN"
            /\ (sig.node_idx = 0 /\ sig.time = 42) => sig.phase = "YELLOW"
            /\ (sig.node_idx = 0 /\ sig.time = 46) => sig.phase = "RED"

\* C17 witness: the fixed plan answered YELLOW for a node with an offset, in
\* its second cycle.
C17_Witness ==
    /\ sig.fn = "baseline"
    /\ sig.node_idx = 7
    /\ sig.time = 131
    /\ sig.phase = "YELLOW"

\* C18: the green duration of the adaptive plan lies in [25, 55] for every
\* queue depth >= 0 and does not decrease when the queue grows.
C18_GreenTimeBoundedMonotone ==
    sig.fn = "optimized" =>
        /\ 25 <= sig.green /\ sig.green <= 55
        /\ sig.green <= sig.green_above
        /\ sig.green_above <= 55
        /\ sig.queue = 0 => sig.green = 25

\* C18 witness: a green duration strictly between the bounds that grows with
\* half a vehicle more in the queue.
C18_Witness ==
    /\ sig.fn = "optimized"
    /\ 25 < sig.green
    /\ sig.green < sig.green_above
    /\ sig.green_above < 55

\* C19: optimized_signal(t, i, queue) is GREEN when local < g, YELLOW when
\* g <= local < g + 4, RED otherwise, with local = (t + (9*i mod 75)) mod 75
\* and g the green duration for the queue; a 75 s cycle has exactly 4 s of
\* YELLOW and at least 16 s of RED; and optimized_signal(0, 0, 0) is GREEN.
C19_OptimizedSignalPhases ==
    sig.fn = "optimized" =>
        LET local == (sig.time + ((9 * sig.node_idx) % 75)) % 75
            g == sig.green
            cycle == sig.time .. (sig.time + 74)
            seconds(phase) ==
                Cardinality({x \in cycle :
                                optimized_signal(x, sig.node_idx, sig.queue) = phase})
        IN  /\ sig.phase \in {"GREEN", "YELLOW", "RED"}
            /\ sig.phase = "GREEN" <=> local < g
            /\ sig.phase = "YELLOW" <=> (g <= local /\ local < g + 4)
            /\ sig.phase = "RED" <=> g + 4 <= local
            /\ sig.phase_next_cycle = sig.phase
            /\ seconds("YELLOW") = 4
            /\ seconds("RED") >= 16
            /\ seconds("GREEN") = g
            /\ (sig.time = 0 /\ sig.node_idx = 0 /\ sig.queue = 0)
                  => sig.phase = "GREEN"

\* C19 witness: the adaptive plan answered YELLOW to a node with an offset
\* whose queue has stretched the green to its cap.
C19_Witness ==
    /\ sig.fn = "optimized"
    /\ sig.node_idx = 3
    /\ sig.green = 55
    /\ sig.phase = "YELLOW"
    /\ sig.time > 75

\* C20 (parts): in every state of a run each node's cumulative delay is >= 0,
\* under both policies, and the fuel and CO2 of each series never decrease
\* from one record to the next.
C20_DelayNonNegative ==
    /\ \A i \in NodeIdx : baseline_states[i].delay >= 0
                          /\ optimized_states[i].delay >= 0
    /\ \A k \in 1 .. (Len(baseline_series) - 1) :
          /\ baseline_series[k].fuel_L <= baseline_series[k + 1].fuel_L
          /\ baseline_series[k].co2_kg <= baseline_series[k + 1].co2_kg
    /\ \A k \in 1 .. (Len(optimized_series) - 1) :
          /\ optimized_series[k].fuel_L <= optimized_series[k + 1].fuel_L
          /\ optimized_series[k].co2_kg <= optimized_series[k + 1].co2_kg

\* C20 (parts): a tick of a run decreases no node's cumulative delay, and so
\* not the total delay of either policy.
C20_TickKeepsDelay ==
    (rc_pc = "loop" /\ rc_pc' = "loop" /\ t' = t + DT) =>
        /\ \A i \in NodeIdx :
              /\ baseline_states'[i].delay >= baseline_states[i].delay
              /\ optimized_states'[i].delay >= optimized_states[i].delay
        /\ SumField(baseline_states', "delay", CORRIDOR_N - 1)
              >= SumField(baseline_states, "delay", CORRIDOR_N - 1)
        /\ SumField(optimized_states', "delay", CORRIDOR_N - 1)
              >= SumField(optimized_states, "delay", CORRIDOR_N - 1)

\* C20: within one run_comparison run every node's cumulative delay is >= 0
\* and never decreases from one tick to the next, for both policies; so the
\* total delay, fuel and CO2 of each series never decrease over the run.
C20_DelayMonotone ==
    []C20_DelayNonNegative /\ [][C20_TickKeepsDelay]_vars

\* C20 witness: a run well under way in which nodes of both policies have built
\* up delay while a baseline node that has seen GREEN phases keeps its delay,
\* and the fuel of the series has grown.
C20_Witness ==
    /\ rc_pc = "loop"
    /\ Len(baseline_series) >= 20
    /\ baseline_signal(t - DT, 0) = "GREEN"
    /\ baseline_states[0].delay > 0
    /\ \E i \in NodeIdx : optimized_states[i].delay > 0
    /\ baseline_series[Len(baseline_series)].fuel_L > baseline_series[1].fuel_L
    /\ optimized_series[Len(optimized_series)].co2_kg > optimized_series[1].co2_kg

\* C21 (the claim as stated): run_comparison has no failure mode: for every
\* numeric duration, 0 and negative values included, the call terminates and
\* returns the two series and a summary; no call ends in an exception.
C21_RunComparisonNeverRaises ==
    /\ rc_pc # "raised"
    /\ rc_pc = "done" => /\ Len(baseline_series) >= 1
                         /\ Len(optimized_series) = Len(baseline_series)

\* C24 (part): a step of a run that is not a tick (the end of the loop)
\* changes no node's delay, and a tick changes the delay of a node only if
\* the node's phase at that tick is RED.
C24_DelayChangesOnlyOnRed ==
    rc_pc = "loop" =>
        \A i \in NodeIdx :
           /\ baseline_states'[i].delay # baseline_states[i].delay =>
                 /\ t' = t + DT
                 /\ baseline_signal(t, i) = "RED"
           /\ optimized_states'[i].delay # optimized_states[i].delay =>
                 /\ t' = t + DT
                 /\ optimized_signal(t, i, optimized_states[i].queue) = "RED"

\* C24 (part): on a RED tick the delay grows by exactly the queue after this
\* tick's arrivals were added, times DT, times the damping: 1.0 for the
\* baseline, 0.55 for the optimized policy.
C24_RedTickAddsQueueTimesDT ==
    (rc_pc = "loop" /\ t' = t + DT) =>
        \A i \in NodeIdx :
           /\ baseline_signal(t, i) = "RED" =>
                 /\ baseline_states'[i].queue
                       = baseline_states[i].queue + Arrivals(t)
                 /\ baseline_states'[i].delay - baseline_states[i].delay
                       = baseline_states'[i].queue * DT
           /\ optimized_signal(t, i, optimized_states[i].queue) = "RED" =>
                 /\ optimized_states'[i].queue
                       = optimized_states[i].queue + Arrivals(t)
                 /\ 100 * (optimized_states'[i].delay - optimized_states[i].delay)
                       = optimized_states'[i].queue * DT * 55

\* C24: in run_comparison a node's cumulative delay changes only on a tick in
\* which that node's phase is RED, and then it grows by exactly (the queue
\* after this tick's arrivals were added) * DT * damping, with damping 1.0 for
\* the baseline and 0.55 for the optimized policy; on GREEN and YELLOW ticks
\* the node's delay is unchanged.
C24_DelayOnlyOnRed ==
    [][C24_DelayChangesOnlyOnRed /\ C24_RedTickAddsQueueTimesDT]_vars

\* C24 witness: a run in which the last tick was RED for one baseline node,
\* YELLOW for another and GREEN for a third, with delay built up under both
\* policies and the optimized delay of a node below its baseline delay.
C24_Witness ==
    /\ rc_pc = "loop"
    /\ t >= 4 * DT
    /\ \E i, j, k \in NodeIdx :
          /\ baseline_signal(t - DT, i) = "RED"
          /\ baseline_states[i].delay > 0
          /\ baseline_signal(t - DT, j) = "YELLOW"
          /\ baseline_signal(t - DT, k) = "GREEN"
    /\ \E i \in NodeIdx :
          /\ optimized_states[i].delay > 0
          /\ optimized_states[i].delay < baseline_states[i].delay

\* C22 (the claim as stated): a replay on a loaded engine that has no events
\* (duration 0) yields exactly one snapshot, for time 0 with progress 0, and
\* then ends without raising an error.
C22_EmptyReplayYieldsOneSnapshot ==
    \A i \in Invocations :
        (loaded /\ events = << >> /\ duration_s = 0) =>
            /\ inv[i].pc # "raised"
            /\ inv[i].pc = "done" =>
                  /\ Len(inv[i].out) = 1
                  /\ inv[i].out[1].time_s = 0
                  /\ inv[i].out[1].progress = 0

\* C23 (the claim as stated): with one replay running, from the moment the
\* consumer holds the snapshot for time t until it pulls the next one, a
\* get_snapshot call returns the time_s and the phase map of that snapshot.
C23_SnapshotMatchesYielded ==
    \A i \in Invocations, p \in Pollers :
        (inv[i].pc = "yielded" /\ poll[p].pc = "rstate") =>
            /\ poll[p].time_s = inv[i].out[Len(inv[i].out)].time_s
            /\ current_state = inv[i].out[Len(inv[i].out)].states

\* C28 (the claim as stated): after any sequence of loads, replay steps and
\* get_snapshot calls on one engine, a reload after a replay has advanced
\* included, every get_snapshot result has 0 <= time_s <= duration_s and
\* 0 <= progress <= 100.
C28_SnapshotWithinDuration ==
    last_snapshot.taken =>
        /\ 0 <= last_snapshot.time_s
        /\ last_snapshot.time_s <= last_snapshot.duration_s
        /\ 0 <= last_snapshot.progress
        /\ last_snapshot.progress <= 1000

\* C26 (part): a step that changes the current time or the phase map is a
\* write of a replay generator inside its `with self._lock` block.
C26_OnlyReplayWrites ==
    (current_time' # current_time \/ current_state' # current_state) =>
        \E i \in Invocations :
           /\ inv[i].pc \in {"wtime", "wstate"}
           /\ inv'[i].pc # inv[i].pc

\* C26 (part): a step of load (also the load inside build_timeline or a first
\* next), of get_state_at, of build_timeline or of get_snapshot leaves the
\* current time and the phase map as they were.
C26_CallsKeepSharedState ==
    ( \/ load_count' # load_count
      \/ query' # query
      \/ timeline' # timeline
      \/ timeline_result' # timeline_result
      \/ poll' # poll
      \/ last_snapshot' # last_snapshot ) =>
        /\ current_time' = current_time
        /\ current_state' = current_state

\* C26: the shared replay state (current time and phase map) is changed only
\* by steps of a replay invocation: load, get_state_at, build_timeline and
\* get_snapshot leave the current time and the phase map unchanged, whatever
\* the engine's state.
C26_SharedStateFrame ==
    [][C26_OnlyReplayWrites /\ C26_CallsKeepSharedState]_vars

\* C26 witness: a replay has advanced the shared state past time 0; since then
\* the engine was reloaded, asked for a state and for its timeline, and a
\* get_snapshot call returned the time and phase map the replay wrote.
C26_Witness ==
    /\ current_time > 0
    /\ current_state # << >>
    /\ load_count = 2
    /\ query.asked
    /\ timeline_result = "ok"
    /\ last_snapshot.taken
    /\ last_snapshot.time_s = current_time
    /\ last_snapshot.states = current_state
    /\ last_snapshot.duration_s = duration_s
    /\ inv[SharedReplay].pc = "yielded"
    /\ inv[SharedReplay].out[Len(inv[SharedReplay].out)].duration_s # duration_s

\* The generator i is being consumed: its first next() was called and it has
\* not ended.
Consumed(i) ==
    inv[i].pc \in {"acquire", "wtime", "wstate", "yield", "yielded", "sleeping"}

\* Exactly one replay invocation, i, is being consumed.
OnlyConsumed(i) ==
    /\ Consumed(i)
    /\ \A j \in Invocations \ {i} : ~Consumed(j)

\* The current time is what the generator i wrote last: t after its write, the
\* t of the step before while the next write is pending.
WroteCurrentTime(i) ==
    \/ /\ inv[i].pc \in {"wstate", "yield", "yielded", "sleeping"}
       /\ current_time = inv[i].t
    \/ /\ inv[i].pc \in {"acquire", "wtime"}
       /\ inv[i].t > 0
       /\ current_time = inv[i].t - inv[i].step_s

\* C29 (part): while exactly one replay invocation is being consumed and the
\* current time is one it wrote, a get_snapshot call returns the current time,
\* a multiple of the step that does not exceed the duration.
C29_SnapshotTimeIsStepMultiple ==
    \A i \in Invocations, p \in Pollers :
        (OnlyConsumed(i) /\ WroteCurrentTime(i) /\ poll[p].pc = "rstate") =>
            /\ poll[p].time_s = current_time
            /\ poll[p].time_s % inv[i].step_s = 0
            /\ 0 <= poll[p].time_s
            /\ poll[p].time_s <= duration_s

\* C29 (part): over such a window the current time, which is what successive
\* get_snapshot calls return, never decreases.
C29_CurrentTimeNeverFalls ==
    \A i \in Invocations :
        ( /\ OnlyConsumed(i) /\ WroteCurrentTime(i)
          /\ OnlyConsumed(i)' /\ WroteCurrentTime(i)'
          /\ inv'[i].born = inv[i].born ) =>
            current_time' >= current_time

\* C29 (amended): while exactly one replay invocation is being consumed on an
\* engine (no reload, no other invocation running), the time_s values returned
\* by successive get_snapshot calls that follow an update of the shared state
\* by that invocation are non-decreasing, and each is a multiple of step that
\* is <= duration.
C29_SnapshotTimesAfterFirstWrite ==
    []C29_SnapshotTimeIsStepMultiple /\ [][C29_CurrentTimeNeverFalls]_vars

\* C29 (the claim as stated): whenever exactly one replay invocation is being
\* consumed, the time a get_snapshot call returns is a multiple of that
\* invocation's step, is <= duration, and is not above the time the invocation
\* is about to write (which the next call would return).
C29_SnapshotTimesOrdered ==
    \A i \in Invocations, p \in Pollers :
        (OnlyConsumed(i) /\ poll[p].pc = "rstate") =>
            /\ poll[p].time_s % inv[i].step_s = 0
            /\ poll[p].time_s <= duration_s
            /\ inv[i].pc \in {"acquire", "wtime"} => poll[p].time_s <= inv[i].t

\* C29 (second half): two replay invocations are consumed side by side and a
\* get_snapshot call is returning a time below the one returned before.
C29_ConcurrentTimeFallsBack ==
    /\ \A i \in Invocations : Consumed(i)
    /\ last_snapshot.taken
    /\ \E p \in Pollers :
          /\ poll[p].pc = "rstate"
          /\ poll[p].time_s < last_snapshot.time_s

\* C29 witness: the only replay ever started on the engine is at its third
\* step; get_snapshot returned the time of an earlier step and a call is now
\* returning the later one.
C29_Witness ==
    /\ started = 1
    /\ \E i \in Invocations, p \in Pollers :
          /\ OnlyConsumed(i)
          /\ WroteCurrentTime(i)
          /\ inv[i].pc = "yielded"
          /\ Len(inv[i].out) = 3
          /\ poll[p].pc = "rstate"
          /\ last_snapshot.taken
          /\ last_snapshot.time_s > 0
          /\ last_snapshot.time_s < poll[p].time_s

\* C27 (the claim as stated): once a comparison has been computed, a later
\* request without refresh=1 runs no simulation and returns the cached result,
\* which stays in the cache, whatever its duration argument; a later request
\* with refresh=1 recomputes with the requested duration, and its result
\* replaces the cache and is returned.
C27_CachedUnlessRefreshed ==
    cmp.before # << >> =>
        IF cmp.refresh
        THEN /\ cmp.pc # "raised"
             /\ cmp.pc = "returned" =>
                   /\ cmp.response = comparison_cache
                   /\ cmp.response[1].duration_s = cmp.duration
                   /\ Len(cmp.response[1].baseline) = cmp.duration \div DT + 1
        ELSE /\ cmp.pc = "returned"
             /\ cmp.response = cmp.before
             /\ comparison_cache = cmp.before

\* The returned path leads from start to end along edges of the network.
IsPathBetween(path, start, end) ==
    /\ Len(path) >= 1
    /\ path[1] = start
    /\ path[Len(path)] = end
    /\ \A k \in 1 .. (Len(path) - 1) : Adjacent(path[k], path[k + 1])

\* C25 (the claim as stated): find_optimal_path between two nodes of the
\* network, without and with realtime data, returns a path from start to end
\* whose total calculate_cost is the least among all paths.
C25_OptimalPathIsCheapest ==
    (opt.pc = "returned" /\ opt.start \in Nodes /\ opt.end \in Nodes) =>
        LET w == StepCosts(CITY_GRAPH, opt.realtime_data)
        IN  /\ opt.result.exception = "none"
            /\ IsPathBetween(opt.result.path, opt.start, opt.end)
            /\ PathCost(w, opt.result.path) = DistTo(w, opt.end)[opt.start]

\* C25 (second form of the claim): the heuristic never exceeds the true
\* remaining cost to the target (both in tenths of a second).
C25_HeuristicAdmissible ==
    (opt.pc = "returned" /\ opt.end \in Nodes) =>
        LET w == StepCosts(CITY_GRAPH, opt.realtime_data)
        IN  \A n \in Nodes : heuristic(n, opt.end) <= 10 * DistTo(w, opt.end)[n]

====
